---- MODULE Spec2Model ----
(***************************************************************************)
(* SpeakBot mobile client: the command queue (command store), the command  *)
(* executor (CommandExecutor), the robot store and the WebSocket service.  *)
(*                                                                         *)
(* JavaScript is single threaded: every action below is one task of the    *)
(* event loop (a public call, a timer callback or a socket event) run to   *)
(* its next suspension point (an await on a timer) or to its end.          *)
(***************************************************************************)
EXTENDS Integers, Sequences, FiniteSets, TLC

(***************************************************************************)
(* Bounds                                                                  *)
(***************************************************************************)
\* number of commands ever enqueued (command ids are 1..MaxCmds)
MaxCmds == 2
\* the same, for the specification that follows three commands
WideCmds == 3
\* config.animationSteps of the executor (DEFAULT_CONFIG sets 20)
AnimSteps == 2

\* number of handler registrations held by the service at a time
MaxRegs == 2
\* number of updateCommandStatus() calls made by the application
MaxUpdates == 2
\* longest batch given to one addCommands() call
MaxBatch == 2
\* number of commands ever enqueued where the history limit is reached
MaxEnqueued == 105

\* largest params.distance of a command given to calculateTargetPosition
MaxDistance == 3
\* largest coordinate of a position given to calculateTargetPosition
MaxCoord == 1

\* number of WebSocket objects ever constructed
MaxSockets == 5
\* number of connect() calls made by the application
MaxConnects == 3

\* largest size of the recording file, in bytes
MaxFile == 22
\* number of startCall() invocations
MaxStarts == 2
\* number of endCall() invocations
MaxEnds == 1
\* number of sendAudioChunk() invocations of the chunk timers that are
\* suspended at the same time
MaxInFlight == 1

(***************************************************************************)
(* Program constants                                                       *)
(***************************************************************************)
\* history: [...state.history, command].slice(-100)
HistoryCap == 100
\* setTimeout(() => get().executeCommands(), 100)
ExecTimerDelay == 100
\* await this.delay(300) of a command that does not move
NoMoveDelay == 300
\* DEFAULT_CONFIG.animationDuration
animationDuration == 1000

\* APP_CONFIG.WS_RECONNECT_DELAY
WS_RECONNECT_DELAY == <<1000, 2000, 5000>>
\* WebSocketService.maxReconnectAttempts
maxReconnectAttempts == 3
\* the `|| 5000` of reconnect()
FallbackDelay == 5000

\* Positions are integers in units of 1/Scale.  Scale is not a multiple of
\* AnimSteps, so the per-step delta (target - current) / animationSteps is
\* rounded (the integer division stands for the rounding of the floating
\* point division) and delta * animationSteps misses the target.
Scale == AnimSteps + 1

VARIABLES
  \* ---- command store (useCommandStore) ----
  commands,            \* CommandWithStatus[]
  currentCommandIndex, \* 0-based index, -1 when findIndex misses
  history,             \* Command[] (ids)
  error,               \* store error message, "none" for null
  timerQ,              \* the pending timers of the store and the executor
                       \* in the order they were set: 0 is a
                       \* setTimeout(() => executeCommands(), 100), k > 0 is
                       \* the delay() that run k awaits
  nextId,              \* next fresh command id
  \* ---- CommandExecutor ----
  isExecuting,         \* busy flag
  abortController,     \* 0 for null, otherwise the controller's identity
  abortedCtl,          \* controllers whose signal is aborted
  runs,                \* the executeQueue invocations, suspended or done
  \* ---- robot store (useRobotStore) ----
  robotStatus,
  currentAction,       \* 0 for null, otherwise the description (command id)
  position,
  \* ---- WebSocketService ----
  ws,                  \* 0 for null, otherwise the socket's identity
  socks,               \* every WebSocket constructed: readyState, url and
                       \* the promise its onopen handler resolves
  reconnectAttempts,
  heartbeatInterval,   \* TRUE when the field holds an interval handle
  hbLive,              \* number of intervals set and not cleared
  isConnecting,
  manualDisconnect,
  reconnTimers,        \* delays of the pending setTimeout(connect) timers,
                       \* in the order they were set
  promises,            \* the promises returned to the application's
                       \* connect() calls
  \* ---- observations of the WebSocketService ----
  lastCallerOp,        \* the application's last call: connect or disconnect
  promBase,            \* number of connect() calls made before the last
                       \* disconnect()
  exhausted,           \* reconnect() gave up and the application has not
                       \* called connect() since
  schedLog,            \* delays reconnect() scheduled since the last open
  nmCloses,            \* non-manual closes since the last open
  callerUrl,           \* url of the last connect() that constructed a socket
  \* ---- WebSocketService: messages ----
  listeners,           \* Map<string, MessageHandler[]>, [] for an absent key
  lastOff,             \* the arguments of the last off()
  lastMsg,             \* the last inbound message and the handlers it invoked
  lastSend,            \* the last send() and whether it wrote to the socket
  \* ---- one call of calculateTargetPosition ----
  calcCommand,         \* the command argument
  calcPos,             \* the currentPos argument (the caller's object)
  calcIn,              \* what currentPos held when the call was made
  calcDone,            \* "no" before the call, then "yes" or "raised"
  calcResult,          \* the position returned
  \* ---- the application's last call of updateCommandStatus ----
  lastUpdate,          \* its arguments, and the queue it was made on
  \* ---- useVoiceCall ----
  isInCallRef,
  audioChunkTimerRef,  \* 0 for null, otherwise the interval's identity
  liveTimers,          \* the intervals set and not cleared
  lastAudioPositionRef,
  isFirstChunkRef,
  starting,            \* startCall() invocations awaiting
                       \* prepareToRecordAsync()
  nStarts,             \* startCall() invocations made
  ticks,               \* the suspended sendAudioChunk() invocations
  ends,                \* the endCall() invocations, suspended or done
  \* ---- the recorder and its file ----
  recording,           \* the recorder is appending to the file
  fileSize,            \* bytes in the recording file
  \* ---- observations of the call messages ----
  sessionSends,        \* call_audio messages since the last call_start
  sessionEnded,        \* call_end was sent and no call_start since
  sentUpTo,            \* end of the furthest byte range carried by a
                       \* call_audio message since the last recording began
  lastChunk,           \* the last call_audio message
  lastEnd              \* the last call_end message of an endCall()

execVars == <<commands, currentCommandIndex, history, error, timerQ, nextId,
              isExecuting, abortController, abortedCtl, runs,
              robotStatus, currentAction, position>>

wsVars == <<ws, socks, reconnectAttempts, heartbeatInterval, hbLive,
            isConnecting, manualDisconnect, reconnTimers, promises,
            lastCallerOp, promBase, exhausted, schedLog, nmCloses,
            callerUrl>>

calcVars == <<calcCommand, calcPos, calcIn, calcDone, calcResult, lastUpdate>>

callVars == <<isInCallRef, audioChunkTimerRef, liveTimers, lastAudioPositionRef,
              isFirstChunkRef, starting, nStarts, ticks, ends, recording,
              fileSize, sessionSends, sessionEnded, sentUpTo, lastChunk,
              lastEnd>>

msgVars == <<listeners, lastOff, lastMsg, lastSend>>

vars == <<execVars, wsVars, calcVars, callVars, msgVars>>

(***************************************************************************)
(* Commands                                                                *)
(***************************************************************************)
\* A command as produced by the parser: its name and its params object.
\* hasParams = FALSE is a payload without a params object; distance = 0 is
\* a params object without a distance.
CmdKinds ==
  { [name |-> "forward", hasParams |-> TRUE,  distance |-> 0],
    [name |-> "stop",    hasParams |-> TRUE,  distance |-> 0],
    [name |-> "forward", hasParams |-> FALSE, distance |-> 0] }

MoveNames == {"forward", "backward", "left", "right", "up", "down"}

\* command.params.distance || 1
DistanceOf(command) == IF command.distance = 0 THEN 1 ELSE command.distance

\* reading command.params.distance of a command without params raises
Throws(command) == command.name \in MoveNames /\ ~command.hasParams

\* A calculateTargetPosition with the z axis reversed.
calculateTargetPosition_ReversedZ(command, currentPos) ==
  LET d == DistanceOf(command) * Scale IN
  CASE command.name = "forward"  -> [currentPos EXCEPT !.z = @ + d]
    [] command.name = "backward" -> [currentPos EXCEPT !.z = @ - d]
    [] command.name = "left"     -> [currentPos EXCEPT !.x = @ - d]
    [] command.name = "right"    -> [currentPos EXCEPT !.x = @ + d]
    [] command.name = "up"       -> [currentPos EXCEPT !.y = @ + d]
    [] command.name = "down"     -> [currentPos EXCEPT !.y = @ - d]
    [] OTHER                     -> currentPos

calculateTargetPosition(command, currentPos) ==
  LET d == DistanceOf(command) * Scale IN
  CASE command.name = "forward"  -> [currentPos EXCEPT !.z = @ - d]
    [] command.name = "backward" -> [currentPos EXCEPT !.z = @ + d]
    [] command.name = "left"     -> [currentPos EXCEPT !.x = @ - d]
    [] command.name = "right"    -> [currentPos EXCEPT !.x = @ + d]
    [] command.name = "up"       -> [currentPos EXCEPT !.y = @ + d]
    [] command.name = "down"     -> [currentPos EXCEPT !.y = @ - d]
    [] OTHER                     -> currentPos

(***************************************************************************)
(* Command store helpers                                                   *)
(***************************************************************************)
\* .slice(-100)
SliceLast(s, n) == IF Len(s) <= n THEN s ELSE SubSeq(s, Len(s) - n + 1, Len(s))

\* No call of updateCommandStatus was made by the application yet.
NoUpdate == [n |-> 0, id |-> 0, status |-> "pending", error |-> "none"]

\* The (status, error) arguments of updateCommandStatus: a CommandStatus
\* without a message ("none"), or 'failed' with the message of the error.
StatusArgs ==
  { <<"pending", "none">>, <<"executing", "none">>, <<"completed", "none">>,
    <<"failed", "E">> }

updateCommandStatus_All(cmds, id, status, err) ==
  [k \in 1..Len(cmds) |-> [cmds[k] EXCEPT !.status = status, !.error = err]]

\* commands.map((cmd) => cmd.command_id === id ? {...cmd, status, error} : cmd)
updateCommandStatus(cmds, id, status, err) ==
  [k \in 1..Len(cmds) |->
     IF cmds[k].id = id THEN [cmds[k] EXCEPT !.status = status, !.error = err]
     ELSE cmds[k]]

\* state.commands.filter((cmd) => cmd.status === 'pending')
RECURSIVE PendingOf(_)
PendingOf(cmds) ==
  IF cmds = <<>> THEN <<>>
  ELSE IF Head(cmds).status = "pending" THEN <<Head(cmds)>> \o PendingOf(Tail(cmds))
  ELSE PendingOf(Tail(cmds))

\* Array.prototype.findIndex on command_id: 0-based, -1 when absent
FindIndex(cmds, id) ==
  IF \E k \in 1..Len(cmds) : cmds[k].id = id
  THEN (CHOOSE k \in 1..Len(cmds) :
          cmds[k].id = id /\ \A m \in 1..(k-1) : cmds[m].id # id) - 1
  ELSE -1

(***************************************************************************)
(* CommandExecutor                                                         *)
(***************************************************************************)
Origin == [x |-> 0, y |-> 0, z |-> 0]

\* The part of the state that the callbacks of a run read and write.
ExecState ==
  [commands |-> commands, cci |-> currentCommandIndex, error |-> error,
   robotStatus |-> robotStatus, currentAction |-> currentAction,
   position |-> position, isExecuting |-> isExecuting,
   abortController |-> abortController]

\* A fresh executeQueue invocation.  snapPos and snapCmds are what the
\* closures built by executeCommands captured: `robotStore` and `state` are
\* the store snapshots taken when executeCommands was entered.
NewRun(ctl, pending, snapPos, snapCmds) ==
  [pc |-> "start", cmds |-> pending, i |-> 1, j |-> 0,
   cur |-> Origin, tgt |-> Origin,
   snapPos |-> snapPos, snapCmds |-> snapCmds, ctl |-> ctl,
   \* observations of the run's callbacks
   final |-> "none",        \* last onStatusChange of the run after 'busy'
   sigInStep |-> FALSE,     \* abort() signalled the run while interpolating
   stepsAfter |-> 0,        \* steps that emitted onPositionUpdate after
                            \* that abort (the forced final value is
                            \* emitted with the last step)
   sigged |-> FALSE,        \* abort() signalled the run's controller
   startAfter |-> 0,        \* onCommandStart calls after that abort
   started |-> {},          \* ids of the commands the run called
                            \* onCommandStart for
   emits |-> 0,             \* onPositionUpdate calls for the command in
                            \* progress
   doneEmits |-> 0,         \* onPositionUpdate calls for the last movement
                            \* the run completed, 0 when there is none
   afterFail |-> FALSE,     \* the last thing the run did was to report
                            \* onCommandError
   cutAfterFail |-> FALSE]  \* the run ended right after an onCommandError
                            \* with commands of its list left

\* A run that has left executeQueue keeps only what it reported.
DoneRun(r) ==
  [r EXCEPT !.pc = "done", !.cmds = <<>>, !.i = 0, !.j = 0,
            !.cur = Origin, !.tgt = Origin, !.snapPos = Origin,
            !.snapCmds = <<>>, !.afterFail = FALSE, !.emits = 0]

\* this.abortController?.signal.aborted
SignalAborted(st) ==
  st.abortController # 0 /\ st.abortController \in abortedCtl

\* executeCommands' onCommandStart callback
onCommandStart(st, r, command) ==
  [st EXCEPT !.cci = FindIndex(r.snapCmds, command.id),
             !.commands = updateCommandStatus(@, command.id, "executing", "none")]

\* An onCommandComplete callback that records nothing.
onCommandComplete_Silent(st, command) == st

\* executeCommands' onCommandComplete callback
onCommandComplete(st, command) ==
  [st EXCEPT !.commands = updateCommandStatus(@, command.id, "completed", "none")]

\* An onCommandError callback that records nothing.
onCommandError_Silent(st, command, msg) == st

\* executeCommands' onCommandError callback
onCommandError(st, command, msg) ==
  [st EXCEPT !.commands = updateCommandStatus(@, command.id, "failed", msg),
             !.error = msg]

Finish_NoCleanup(st, r, status) ==
  [st  |-> [st EXCEPT !.robotStatus = status,
                      !.currentAction = IF status = "idle" THEN 0 ELSE @],
   run |-> [DoneRun(r) EXCEPT !.final = status,
                              !.cutAfterFail = r.afterFail /\ r.i <= Len(r.cmds)]]

\* Leaving executeQueue: the status report after the loop (or in the outer
\* catch), then the finally block.
Finish(st, r, status) ==
  [st  |-> [st EXCEPT !.robotStatus = status,
                      !.currentAction = IF status = "idle" THEN 0 ELSE @,
                      !.isExecuting = FALSE,
                      !.abortController = 0],
   run |-> [DoneRun(r) EXCEPT !.final = status,
                              !.cutAfterFail = r.afterFail /\ r.i <= Len(r.cmds)]]

\* The for loop of executeQueue from command r.i up to the next await on a
\* timer, or to the end of the run.
RECURSIVE Loop(_, _)
Loop(st, r) ==
  IF r.i > Len(r.cmds) THEN Finish(st, r, "idle")
  ELSE IF st.abortController = 0
       THEN Finish(st, r, "error")   \* reading .signal of null raises
  ELSE IF st.abortController \in abortedCtl
       THEN Finish(st, r, "idle")    \* break
  ELSE
    LET command == r.cmds[r.i]
        st1 == [onCommandStart(st, r, command) EXCEPT !.currentAction = command.id]
        r1  == [r EXCEPT !.startAfter = IF r.sigged THEN @ + 1 ELSE @,
                         !.started = @ \cup {command.id},
                         !.afterFail = FALSE, !.emits = 0]
    IN  IF Throws(command)
        THEN Loop(onCommandError(st1, command, "TypeError"),
                  [r1 EXCEPT !.i = @ + 1, !.afterFail = TRUE])
        ELSE
          LET currentPos == r.snapPos
              targetPos  == calculateTargetPosition(command, currentPos)
              r2 == [r1 EXCEPT !.cur = currentPos, !.tgt = targetPos]
          IN  IF currentPos = targetPos
              THEN [st |-> st1, run |-> [r2 EXCEPT !.pc = "delay300", !.j = 0]]
              ELSE IF SignalAborted(st1)
                   THEN Finish(st1, r2, "idle")
                   ELSE [st |-> st1, run |-> [r2 EXCEPT !.pc = "step", !.j = 1]]

\* currentPos + delta * i of executeCommand
StepPos(r) ==
  [x |-> r.cur.x + ((r.tgt.x - r.cur.x) \div AnimSteps) * r.j,
   y |-> r.cur.y + ((r.tgt.y - r.cur.y) \div AnimSteps) * r.j,
   z |-> r.cur.z + ((r.tgt.z - r.cur.z) \div AnimSteps) * r.j]

\* A last update that repeats the interpolated value.
FinalPos_Interpolated(r) == StepPos(r)

\* callbacks.onPositionUpdate(targetPos) after the for loop
FinalPos(r) == r.tgt

\* A continuation that leaves out the update after the for loop.
Emitted_NoFinal(r) == <<StepPos(r)>>

\* The values the continuation of step r.j passes to onPositionUpdate, in
\* order: the interpolated value and, when the step is the last one, the
\* value after the loop.
Emitted(r) ==
  IF r.j < AnimSteps THEN <<StepPos(r)>> ELSE <<StepPos(r), FinalPos(r)>>

\* The continuation of a run when the timer it awaits fires.
Wake(st, r) ==
  IF r.pc = "delay300"
  THEN Loop(onCommandComplete(st, r.cmds[r.i]), [r EXCEPT !.i = @ + 1])
  ELSE
    LET out == Emitted(r)
        st1 == [st EXCEPT !.position = out[Len(out)]]
        r1  == [r EXCEPT !.stepsAfter = IF r.sigInStep THEN @ + 1 ELSE @,
                         !.emits = @ + Len(out)]
    IN  IF r.j < AnimSteps
        THEN IF SignalAborted(st1)
             THEN Finish(st1, r1, "idle")
             ELSE [st |-> st1, run |-> [r1 EXCEPT !.j = @ + 1]]
        ELSE Loop(onCommandComplete(st1, r.cmds[r.i]),
                  [r1 EXCEPT !.i = @ + 1, !.doneEmits = r1.emits])

\* Writes a callback state back to the variables.
Commit(st) ==
  /\ commands' = st.commands
  /\ currentCommandIndex' = st.cci
  /\ error' = st.error
  /\ robotStatus' = st.robotStatus
  /\ currentAction' = st.currentAction
  /\ position' = st.position
  /\ isExecuting' = st.isExecuting
  /\ abortController' = st.abortController

\* CommandExecutor.abort(): the runs whose controller is signalled
AbortRuns ==
  [k \in 1..Len(runs) |->
     IF abortController # 0 /\ runs[k].ctl = abortController /\ runs[k].pc # "done"
     THEN [runs[k] EXCEPT !.sigged = TRUE, !.sigInStep = (runs[k].pc = "step")]
     ELSE runs[k]]

AbortCtl_Next ==
  abortedCtl \cup {IF abortController # 0 THEN abortController ELSE Len(runs) + 1}

\* this.abortController.abort(): the controllers whose signal is aborted
AbortCtl == IF abortController # 0 THEN abortedCtl \cup {abortController} ELSE abortedCtl

(***************************************************************************)
(* Actions of the command store and the executor                           *)
(***************************************************************************)
InitExec ==
  /\ commands = <<>>
  /\ currentCommandIndex = 0
  /\ history = <<>>
  /\ error = "none"
  /\ timerQ = <<>>
  /\ nextId = 1
  /\ isExecuting = FALSE
  /\ abortController = 0
  /\ abortedCtl = {}
  /\ runs = <<>>
  /\ robotStatus = "idle"
  /\ currentAction = 0
  /\ position = Origin

\* addCommand(command); at most `max` commands are ever enqueued
WithStatus(command) ==
  [id |-> command.id, name |-> command.name, hasParams |-> command.hasParams,
   distance |-> command.distance, status |-> "pending", error |-> "none"]

\* The commands a caller passes: the next ids, in the order given.
NewCommands(kinds) ==
  [i \in 1..Len(kinds) |->
     [id |-> nextId + i - 1, name |-> kinds[i].name,
      hasParams |-> kinds[i].hasParams, distance |-> kinds[i].distance]]

Enqueue_Front(cmds, batch) ==
  [i \in 1..Len(batch) |-> WithStatus(batch[i])] \o cmds

\* commands: [...state.commands, ...commandsWithStatus]
Enqueue(cmds, batch) ==
  cmds \o [i \in 1..Len(batch) |-> WithStatus(batch[i])]

Remember_KeepOldest(hist, batch) ==
  LET all == hist \o [i \in 1..Len(batch) |-> batch[i].id]
  IN IF Len(all) <= HistoryCap THEN all ELSE SubSeq(all, 1, HistoryCap)

\* history: [...state.history, ...commands].slice(-100)
Remember(hist, batch) ==
  SliceLast(hist \o [i \in 1..Len(batch) |-> batch[i].id], HistoryCap)

\* addCommand(command), the command of one of the given kinds
AddCommandOf(max, kinds) ==
  /\ nextId <= max
  /\ \E kind \in kinds :
       /\ commands' = Enqueue(commands, NewCommands(<<kind>>))
       /\ history' = Remember(history, NewCommands(<<kind>>))
  /\ timerQ' = Append(timerQ, 0)
  /\ nextId' = nextId + 1
  /\ UNCHANGED <<currentCommandIndex, error, isExecuting, abortController,
                 abortedCtl, runs, robotStatus, currentAction, position>>
  /\ UNCHANGED <<wsVars, calcVars, callVars, msgVars>>

\* addCommand(command)
AddCommand(max) == AddCommandOf(max, CmdKinds)

\* addCommands(commands): one batch of the given sizes, one timer
AddCommandsOf(max, sizes, kinds) ==
  \E k \in sizes :
    /\ nextId + k - 1 <= max
    /\ k > 0 \/ Len(timerQ) < max
    /\ \E ks \in [1..k -> kinds] :
         /\ commands' = Enqueue(commands, NewCommands(ks))
         /\ history' = Remember(history, NewCommands(ks))
    /\ timerQ' = Append(timerQ, 0)
    /\ nextId' = nextId + k
    /\ UNCHANGED <<currentCommandIndex, error, isExecuting, abortController,
                   abortedCtl, runs, robotStatus, currentAction, position>>
    /\ UNCHANGED <<wsVars, calcVars, callVars, msgVars>>

\* const stepDuration = animationDuration / animationSteps
StepDuration == animationDuration \div AnimSteps

\* The delay of the pending timer e.
TimerDelay(e) ==
  IF e = 0 THEN ExecTimerDelay
  ELSE IF runs[e].pc = "delay300" THEN NoMoveDelay
  ELSE StepDuration

\* The n-th pending timer can fire when no timer set before it has a delay
\* that is not longer (that one expires first).
CanFire(n) ==
  \A m \in 1..(n - 1) : TimerDelay(timerQ[m]) > TimerDelay(timerQ[n])

\* The pending timers without the n-th.
RemoveAt(q, n) ==
  [m \in 1..(Len(q) - 1) |-> IF m < n THEN q[m] ELSE q[m + 1]]

\* The timer that a run which suspended again awaits.
Rearm(q, k, r) == IF r.pc = "done" THEN q ELSE Append(q, k)

\* A busy check that never reports a run.
getIsExecuting_Never(st) == FALSE

\* CommandExecutor.getIsExecuting(), the busy check of executeCommands and
\* of executeQueue
getIsExecuting(st) == st.isExecuting

\* The n-th pending timer, set by addCommand, fires: executeCommands(),
\* which calls executeQueue with the pending commands.
ExecuteCommands(n) ==
  /\ timerQ[n] = 0
  /\ CanFire(n)
  /\ LET pending == PendingOf(commands) IN
     IF getIsExecuting(ExecState) \/ pending = <<>>
     THEN /\ timerQ' = RemoveAt(timerQ, n)
          /\ UNCHANGED <<commands, currentCommandIndex, error, isExecuting,
                         abortController, abortedCtl, runs, robotStatus,
                         currentAction, position>>
     ELSE
       LET ctl == Len(runs) + 1
           st0 == [ExecState EXCEPT !.isExecuting = TRUE,
                                    !.abortController = ctl,
                                    !.robotStatus = "busy"]
           res == Loop(st0, NewRun(ctl, pending, position, commands))
       IN  /\ Commit(res.st)
           /\ runs' = Append(runs, res.run)
           /\ timerQ' = Rearm(RemoveAt(timerQ, n), ctl, res.run)
           /\ UNCHANGED abortedCtl
  /\ UNCHANGED <<history, nextId>>
  /\ UNCHANGED <<wsVars, calcVars, callVars, msgVars>>

\* The n-th pending timer, awaited by a run, fires.
RunWake(n) ==
  /\ timerQ[n] # 0
  /\ CanFire(n)
  /\ LET k == timerQ[n]
         res == Wake(ExecState, runs[k])
     IN  /\ Commit(res.st)
         /\ runs' = [runs EXCEPT ![k] = res.run]
         /\ timerQ' = Rearm(RemoveAt(timerQ, n), k, res.run)
  /\ UNCHANGED <<history, nextId, abortedCtl>>
  /\ UNCHANGED <<wsVars, calcVars, callVars, msgVars>>

\* stopExecution()
StopExecution ==
  /\ abortedCtl' = AbortCtl
  /\ runs' = AbortRuns
  /\ abortController' = 0
  /\ isExecuting' = FALSE
  /\ robotStatus' = "idle"
  /\ currentAction' = 0
  /\ UNCHANGED <<commands, currentCommandIndex, history, error, timerQ,
                 nextId, position>>
  /\ UNCHANGED <<wsVars, calcVars, callVars, msgVars>>

ClearCommands_NoAbort ==
  /\ commands' = <<>>
  /\ currentCommandIndex' = 0
  /\ error' = "none"
  /\ UNCHANGED <<abortedCtl, runs, abortController, isExecuting>>
  /\ UNCHANGED <<history, timerQ, nextId, robotStatus, currentAction, position>>
  /\ UNCHANGED <<wsVars, calcVars, callVars, msgVars>>

\* clearCommands()
ClearCommands ==
  /\ abortedCtl' = AbortCtl
  /\ runs' = AbortRuns
  /\ abortController' = 0
  /\ isExecuting' = FALSE
  /\ commands' = <<>>
  /\ currentCommandIndex' = 0
  /\ error' = "none"
  /\ UNCHANGED <<history, timerQ, nextId, robotStatus, currentAction, position>>
  /\ UNCHANGED <<wsVars, calcVars, callVars, msgVars>>

\* moveToNext()
MoveToNext ==
  /\ currentCommandIndex' =
       IF currentCommandIndex + 1 <= Len(commands) - 1
       THEN currentCommandIndex + 1 ELSE Len(commands) - 1
  /\ UNCHANGED <<commands, history, error, timerQ, nextId, isExecuting,
                 abortController, abortedCtl, runs, robotStatus,
                 currentAction, position>>
  /\ UNCHANGED <<wsVars, calcVars, callVars, msgVars>>

\* updateCommandStatus(id, status, error) called by the application, with
\* the id of a command ever enqueued or with an id never given (nextId)
UpdateCommandStatus ==
  /\ lastUpdate.n < MaxUpdates
  /\ \E id \in 1..nextId, a \in StatusArgs :
       /\ commands' = updateCommandStatus(commands, id, a[1], a[2])
       /\ lastUpdate' = [n |-> lastUpdate.n + 1, id |-> id,
                         status |-> a[1], error |-> a[2]]
  /\ UNCHANGED <<currentCommandIndex, history, error, timerQ, nextId,
                 isExecuting, abortController, abortedCtl, runs, robotStatus,
                 currentAction, position>>
  /\ UNCHANGED <<wsVars, callVars, msgVars>>
  /\ UNCHANGED <<calcCommand, calcPos, calcIn, calcDone, calcResult>>

NextExec ==
  \/ AddCommand(MaxCmds)
  \/ \E n \in 1..Len(timerQ) : ExecuteCommands(n)
  \/ \E n \in 1..Len(timerQ) : RunWake(n)
  \/ StopExecution
  \/ ClearCommands
  \/ MoveToNext

\* The same operations with one more command.
NextExecWide ==
  \/ AddCommand(WideCmds)
  \/ \E n \in 1..Len(timerQ) : ExecuteCommands(n)
  \/ \E n \in 1..Len(timerQ) : RunWake(n)
  \/ StopExecution
  \/ ClearCommands
  \/ MoveToNext

(***************************************************************************)
(* One call of calculateTargetPosition                                     *)
(***************************************************************************)
\* The command names of the switch, and one it does not know.
CalcNames == MoveNames \cup {"turn_left", "turn_right", "stop", "jump"}

\* No call is made.
InitCalc ==
  /\ calcCommand = [name |-> "stop", hasParams |-> TRUE, distance |-> 0]
  /\ calcPos = Origin
  /\ calcIn = Origin
  /\ calcDone = "idle"
  /\ calcResult = Origin
  /\ lastUpdate = NoUpdate

\* The arguments of the call: any command name, with or without a params
\* object, with or without a distance, and any position.
InitCalcInputs ==
  /\ calcCommand \in [name : CalcNames, hasParams : BOOLEAN,
                       distance : 0..MaxDistance]
  /\ calcPos \in [x : (0..MaxCoord), y : (0..MaxCoord), z : (0..MaxCoord)]
  /\ calcIn = calcPos
  /\ calcDone = "no"
  /\ calcResult = Origin
  /\ lastUpdate = NoUpdate

\* calculateTargetPosition(calcCommand, calcPos).  The function works on
\* newPos = { ...currentPos }, a copy, and leaves the argument as it is.
Calculate ==
  /\ calcDone = "no"
  /\ IF Throws(calcCommand)
     THEN calcDone' = "raised" /\ calcResult' = calcResult
     ELSE /\ calcDone' = "yes"
          /\ calcResult' = calculateTargetPosition(calcCommand, calcPos)
  /\ UNCHANGED <<calcCommand, calcPos, calcIn, lastUpdate>>
  /\ UNCHANGED <<execVars, wsVars, callVars, msgVars>>

NextCalc == Calculate

(***************************************************************************)
(* useVoiceCall: streaming a growing recording                             *)
(*                                                                         *)
(* The channel is open throughout: every message passed to wsService is    *)
(* written to the socket.  The recorder appends to the file on its own     *)
(* thread, between any two steps of the hook.                              *)
(***************************************************************************)
\* The amounts the recorder appends between two steps of the hook.
AppendSizes == {10, 12}

\* Length of the Base64 text of n bytes: every 3 bytes, and a last group of
\* 1 or 2 bytes with its padding, are 4 characters.
Base64Len(n) == 4 * ((n + 2) \div 3)

\* Math.ceil(lastAudioPositionRef.current / 3) * 4
base64Start(lastPos) == ((lastPos + 2) \div 3) * 4

\* base64Data.slice(base64Start).length for the text of n bytes
SliceLen(n, start) == IF start >= Base64Len(n) THEN 0 ELSE Base64Len(n) - start

\* The first byte that the text from character `start` on decodes to: the
\* characters 4g .. 4g+3 decode to the bytes 3g .. 3g+2.
DecodedFrom(start) == (start \div 4) * 3

NoChunk == [p |-> 0, s |-> 0, from |-> 0, to |-> 0, prevTo |-> 0,
            first |-> FALSE, nth |-> 0, afterEnd |-> FALSE]

NoEnd == [reads |-> 0, live |-> FALSE, n |-> 0]

InitCall ==
  /\ isInCallRef = FALSE
  /\ audioChunkTimerRef = 0
  /\ liveTimers = {}
  /\ lastAudioPositionRef = 0
  /\ isFirstChunkRef = TRUE
  /\ starting = 0
  /\ nStarts = 0
  /\ ticks = <<>>
  /\ ends = <<>>
  /\ recording = FALSE
  /\ fileSize = 0
  /\ sessionSends = 0
  /\ sessionEnded = FALSE
  /\ sentUpTo = 0
  /\ lastChunk = NoChunk
  /\ lastEnd = NoEnd

\* startCall() up to `await audioRecorder.prepareToRecordAsync()`: the
\* permission is granted and the channel is ready; call_start is sent.
StartCall ==
  /\ nStarts < MaxStarts
  /\ ~isInCallRef
  /\ nStarts' = nStarts + 1
  /\ starting' = starting + 1
  /\ sessionSends' = 0
  /\ sessionEnded' = FALSE
  /\ UNCHANGED <<isInCallRef, audioChunkTimerRef, liveTimers,
                 lastAudioPositionRef, isFirstChunkRef, ticks, ends, recording,
                 fileSize, sentUpTo, lastChunk, lastEnd>>
  /\ UNCHANGED <<execVars, wsVars, calcVars, msgVars>>

\* startCall() after prepareToRecordAsync() resolved: record(), the refs
\* and the chunk timer.  A recorder prepared again while it is recording
\* either begins a new file or goes on with the one it has.
StartPrepared ==
  /\ starting > 0
  /\ starting' = starting - 1
  /\ recording' = TRUE
  /\ \E keep \in (IF recording THEN BOOLEAN ELSE {FALSE}) :
       /\ fileSize' = IF keep THEN fileSize ELSE 0
       /\ sentUpTo' = IF keep THEN sentUpTo ELSE 0
  /\ isInCallRef' = TRUE
  /\ lastAudioPositionRef' = 0
  /\ isFirstChunkRef' = TRUE
  /\ LET t == nStarts - starting + 1 IN
       /\ audioChunkTimerRef' = t
       /\ liveTimers' = liveTimers \cup {t}
  /\ UNCHANGED <<nStarts, ticks, ends, sessionSends, sessionEnded, lastChunk,
                 lastEnd>>
  /\ UNCHANGED <<execVars, wsVars, calcVars, msgVars>>

\* The recorder appends to the file.
RecorderAppend ==
  /\ recording
  /\ \E g \in AppendSizes :
       /\ fileSize + g <= MaxFile
       /\ fileSize' = fileSize + g
  /\ UNCHANGED <<isInCallRef, audioChunkTimerRef, liveTimers,
                 lastAudioPositionRef, isFirstChunkRef, starting, nStarts,
                 ticks, ends, recording, sessionSends, sessionEnded, sentUpTo,
                 lastChunk, lastEnd>>
  /\ UNCHANGED <<execVars, wsVars, calcVars, msgVars>>

\* A sendAudioChunk() invocation up to `await FileSystem.getInfoAsync(uri)`;
\* owner is 0 for a chunk timer and the endCall() invocation otherwise.
NewTick(owner) == [pc |-> "info", currentSize |-> 0, owner |-> owner]

TimerTicks == {i \in 1..Len(ticks) : ticks[i].owner = 0}

\* The interval t fires: sendAudioChunk().
Tick(t) ==
  /\ t \in liveTimers
  /\ isInCallRef
  /\ Cardinality(TimerTicks) < MaxInFlight
  /\ ticks' = Append(ticks, NewTick(0))
  /\ UNCHANGED <<isInCallRef, audioChunkTimerRef, liveTimers,
                 lastAudioPositionRef, isFirstChunkRef, starting, nStarts,
                 ends, recording, fileSize, sessionSends, sessionEnded,
                 sentUpTo, lastChunk, lastEnd>>
  /\ UNCHANGED <<execVars, wsVars, calcVars, msgVars>>

\* sendAudioChunk() invocation i returns.  When it is the one endCall()
\* awaits, endCall() goes on to `await audioRecorder.stop()`; reads is the
\* number of getInfoAsync() results the invocation had.
Return(i, reads) ==
  LET e == ticks[i].owner IN
  /\ ticks' = RemoveAt(ticks, i)
  /\ ends' = IF e = 0 THEN ends
             ELSE [ends EXCEPT ![e].pc = "stop", ![e].reads = @ + reads]

\* getInfoAsync() of invocation i resolves.
TickInfo(i) ==
  /\ ticks[i].pc = "info"
  /\ IF fileSize = 0 \/ fileSize <= lastAudioPositionRef
     THEN Return(i, 1)
     ELSE /\ ticks' = [ticks EXCEPT ![i].pc = "read", ![i].currentSize = fileSize]
          /\ ends' = IF ticks[i].owner = 0 THEN ends
                     ELSE [ends EXCEPT ![ticks[i].owner].reads = @ + 1]
  /\ UNCHANGED <<isInCallRef, audioChunkTimerRef, liveTimers,
                 lastAudioPositionRef, isFirstChunkRef, starting, nStarts,
                 recording, fileSize, sessionSends, sessionEnded, sentUpTo,
                 lastChunk, lastEnd>>
  /\ UNCHANGED <<execVars, wsVars, calcVars, msgVars>>

\* readAsStringAsync() of invocation i resolves with the Base64 text of the
\* file as it is now; the tail of the text is sent when it is not empty.
TickRead(i) ==
  /\ ticks[i].pc = "read"
  /\ LET start == base64Start(lastAudioPositionRef) IN
     IF SliceLen(fileSize, start) > 0
     THEN /\ lastChunk' = [p |-> lastAudioPositionRef,
                           s |-> ticks[i].currentSize,
                           from |-> DecodedFrom(start), to |-> fileSize,
                           prevTo |-> sentUpTo,
                           first |-> isFirstChunkRef, nth |-> sessionSends + 1,
                           afterEnd |-> sessionEnded]
          /\ sessionSends' = sessionSends + 1
          /\ sentUpTo' = IF fileSize > sentUpTo THEN fileSize ELSE sentUpTo
          /\ lastAudioPositionRef' = ticks[i].currentSize
          /\ isFirstChunkRef' = FALSE
     ELSE UNCHANGED <<lastChunk, sessionSends, sentUpTo, lastAudioPositionRef,
                      isFirstChunkRef>>
  /\ Return(i, 0)
  /\ UNCHANGED <<isInCallRef, audioChunkTimerRef, liveTimers, starting,
                 nStarts, recording, fileSize, sessionEnded, lastEnd>>
  /\ UNCHANGED <<execVars, wsVars, calcVars, msgVars>>

\* endCall() up to `await sendAudioChunk()`: the timer of the ref is
\* cleared and the last sendAudioChunk() is begun.
EndCall ==
  /\ Len(ends) < MaxEnds
  /\ isInCallRef
  /\ audioChunkTimerRef' = 0
  /\ liveTimers' = liveTimers \ {audioChunkTimerRef}
  /\ ticks' = Append(ticks, NewTick(Len(ends) + 1))
  /\ ends' = Append(ends, [pc |-> "drain", reads |-> 0,
                           live |-> (liveTimers \ {audioChunkTimerRef}) # {}])
  /\ UNCHANGED <<isInCallRef, lastAudioPositionRef, isFirstChunkRef, starting,
                 nStarts, recording, fileSize, sessionSends, sessionEnded,
                 sentUpTo, lastChunk, lastEnd>>
  /\ UNCHANGED <<execVars, wsVars, calcVars, msgVars>>

\* audioRecorder.stop() of endCall() invocation e resolves or raises: in
\* both cases call_end is sent and isInCallRef is reset.
EndStopped(e) ==
  /\ ends[e].pc = "stop"
  /\ ends' = [ends EXCEPT ![e].pc = "done"]
  /\ recording' = FALSE
  /\ isInCallRef' = FALSE
  /\ lastEnd' = [reads |-> ends[e].reads, live |-> ends[e].live, n |-> e]
  /\ sessionEnded' = TRUE
  /\ UNCHANGED <<audioChunkTimerRef, liveTimers, lastAudioPositionRef,
                 isFirstChunkRef, starting, nStarts, ticks, fileSize,
                 sessionSends, sentUpTo, lastChunk>>
  /\ UNCHANGED <<execVars, wsVars, calcVars, msgVars>>

NextCall ==
  \/ StartCall
  \/ StartPrepared
  \/ RecorderAppend
  \/ \E t \in 1..MaxStarts : Tick(t)
  \/ \E i \in 1..Len(ticks) : TickInfo(i)
  \/ \E i \in 1..Len(ticks) : TickRead(i)
  \/ EndCall
  \/ \E e \in 1..Len(ends) : EndStopped(e)

(***************************************************************************)
(* WebSocketService                                                        *)
(***************************************************************************)
\* A reconnect() that reads the schedule one entry too far.
ReconnectDelay_OffByOne(attempts) ==
  IF attempts + 2 <= Len(WS_RECONNECT_DELAY) /\ WS_RECONNECT_DELAY[attempts + 2] # 0
  THEN WS_RECONNECT_DELAY[attempts + 2]
  ELSE FallbackDelay

\* APP_CONFIG.WS_RECONNECT_DELAY[this.reconnectAttempts] || 5000
ReconnectDelay(attempts) ==
  IF attempts + 1 <= Len(WS_RECONNECT_DELAY) /\ WS_RECONNECT_DELAY[attempts + 1] # 0
  THEN WS_RECONNECT_DELAY[attempts + 1]
  ELSE FallbackDelay

\* isReady()
isReady == ws # 0 /\ socks[ws].state = "OPEN"

\* resolve() / reject() of the promise a connect() call returned; promise 0
\* is the promise of the connect() call of a reconnect timer, which nobody
\* holds.  Settling a settled promise has no effect.
Settle(ps, p, outcome) ==
  IF p # 0 /\ ps[p] = "pending" THEN [ps EXCEPT ![p] = outcome] ELSE ps

\* A closed socket keeps nothing but its readyState.
ClosedSock == [state |-> "CLOSED", url |-> "none", prom |-> 0, afterGiveUp |-> FALSE]

InitWs ==
  /\ ws = 0
  /\ socks = <<>>
  /\ reconnectAttempts = 0
  /\ heartbeatInterval = FALSE
  /\ hbLive = 0
  /\ isConnecting = FALSE
  /\ manualDisconnect = FALSE
  /\ reconnTimers = <<>>
  /\ promises = <<>>
  /\ lastCallerOp = "none"
  /\ promBase = 0
  /\ exhausted = FALSE
  /\ schedLog = <<>>
  /\ nmCloses = 0
  /\ callerUrl = "none"

\* The message types of the handlers the application registers, and the
\* keys of the listeners map: a message type or the wildcard.
MsgTypes == {"call_status", "stt_result"}
Keys == MsgTypes \cup {"*"}
\* The application's handlers.
Handlers == {1, 2}
\* event.data of an inbound message: text that JSON.parse rejects, the text
\* "null", or the JSON text of a message of type call_status.
Payloads == {"garbage", "null", "call_status"}

NoOff == [key |-> "*", h |-> 0]
NoMsg == [seq |-> FALSE, payload |-> "garbage", invoked |-> <<>>,
          dropped |-> FALSE]
NoSend == [seq |-> FALSE, written |-> FALSE]

InitMsg ==
  /\ listeners = [k \in Keys |-> <<>>]
  /\ lastOff = NoOff
  /\ lastMsg = NoMsg
  /\ lastSend = NoSend

Init == InitExec /\ InitWs /\ InitCalc /\ InitCall /\ InitMsg

\* The state in which calculateTargetPosition is called on any arguments.
InitCalcAny == InitExec /\ InitWs /\ InitCall /\ InitMsg /\ InitCalcInputs

\* The application calls connect(url).
Connect(url) ==
  /\ Len(promises) < MaxConnects
  /\ LET p == Len(promises) + 1 IN
       \* the promise is created pending, then the executor body runs
       /\ IF ws # 0 /\ socks[ws].state = "OPEN"
          THEN /\ promises' = Append(promises, "resolved")
               /\ UNCHANGED <<ws, socks, isConnecting, callerUrl>>
          ELSE IF isConnecting
          THEN /\ promises' = Append(promises, "pending")
               /\ UNCHANGED <<ws, socks, isConnecting, callerUrl>>
          ELSE IF url = "invalid"
          THEN /\ isConnecting' = FALSE
               /\ promises' = Append(promises, "rejected")
               /\ UNCHANGED <<ws, socks, callerUrl>>
          ELSE /\ Len(socks) < MaxSockets
               /\ isConnecting' = TRUE
               \* afterGiveUp: the call follows the end of the schedule
               /\ socks' = Append(socks, [state |-> "CONNECTING", url |-> url,
                                          prom |-> p, afterGiveUp |-> exhausted])
               /\ ws' = Len(socks) + 1
               /\ callerUrl' = url
               /\ promises' = Append(promises, "pending")
  /\ manualDisconnect' = FALSE
  /\ lastCallerOp' = "connect"
  /\ exhausted' = FALSE
  /\ UNCHANGED <<reconnectAttempts, heartbeatInterval, hbLive, reconnTimers,
                 promBase, schedLog, nmCloses>>
  /\ UNCHANGED <<execVars, calcVars, callVars, msgVars>>

\* A timer set by reconnect() fires and calls connect().  Timer k can fire
\* when no timer set before it has a delay that is not longer.
TimerConnect(k) ==
  /\ \A m \in 1..(k - 1) : reconnTimers[m] > reconnTimers[k]
  /\ reconnTimers' = [n \in 1..(Len(reconnTimers) - 1) |->
                        IF n < k THEN reconnTimers[n] ELSE reconnTimers[n + 1]]
  /\ manualDisconnect' = FALSE
  /\ IF ws # 0 /\ socks[ws].state = "OPEN"
     THEN UNCHANGED <<ws, socks, isConnecting>>
     ELSE IF isConnecting
     THEN UNCHANGED <<ws, socks, isConnecting>>
     ELSE /\ Len(socks) < MaxSockets
          /\ isConnecting' = TRUE
          /\ socks' = Append(socks, [state |-> "CONNECTING", url |-> "default",
                                     prom |-> 0, afterGiveUp |-> FALSE])
          /\ ws' = Len(socks) + 1
  /\ UNCHANGED <<reconnectAttempts, heartbeatInterval, hbLive, promises,
                 lastCallerOp, promBase, exhausted, schedLog, nmCloses,
                 callerUrl>>
  /\ UNCHANGED <<execVars, calcVars, callVars, msgVars>>

\* disconnect()
Disconnect ==
  /\ manualDisconnect' = TRUE
  /\ IF ws # 0
     THEN /\ socks' = [socks EXCEPT ![ws].state =
                         IF @ \in {"CONNECTING", "OPEN"} THEN "CLOSING" ELSE @]
          /\ ws' = 0
     ELSE UNCHANGED <<ws, socks>>
  \* stopHeartbeat()
  /\ heartbeatInterval' = FALSE
  /\ hbLive' = IF heartbeatInterval THEN hbLive - 1 ELSE hbLive
  /\ lastCallerOp' = "disconnect"
  /\ promBase' = Len(promises)
  /\ UNCHANGED <<reconnectAttempts, isConnecting, reconnTimers, promises,
                 exhausted, schedLog, nmCloses, callerUrl>>
  /\ UNCHANGED <<execVars, calcVars, callVars, msgVars>>

SockOpen_KeepCounter(s) ==
  /\ socks[s].state = "CONNECTING"
  /\ socks' = [socks EXCEPT ![s].state = "OPEN"]
  /\ isConnecting' = FALSE
  /\ heartbeatInterval' = TRUE
  /\ hbLive' = (IF heartbeatInterval THEN hbLive - 1 ELSE hbLive) + 1
  /\ promises' = Settle(promises, socks[s].prom, "resolved")
  /\ schedLog' = <<>>
  /\ nmCloses' = 0
  /\ UNCHANGED <<ws, manualDisconnect, reconnTimers, lastCallerOp, promBase, callerUrl,
                 exhausted, reconnectAttempts>>
  /\ UNCHANGED <<execVars, calcVars, callVars, msgVars>>

\* The open event of socket s: its onopen handler.
SockOpen(s) ==
  /\ socks[s].state = "CONNECTING"
  /\ socks' = [socks EXCEPT ![s].state = "OPEN"]
  /\ isConnecting' = FALSE
  /\ reconnectAttempts' = 0
  \* startHeartbeat(): stopHeartbeat(), then setInterval
  /\ heartbeatInterval' = TRUE
  /\ hbLive' = (IF heartbeatInterval THEN hbLive - 1 ELSE hbLive) + 1
  /\ promises' = Settle(promises, socks[s].prom, "resolved")
  /\ schedLog' = <<>>
  /\ nmCloses' = 0
  /\ UNCHANGED <<ws, manualDisconnect, reconnTimers, lastCallerOp, promBase, callerUrl,
                 exhausted>>
  /\ UNCHANGED <<execVars, calcVars, callVars, msgVars>>

\* The onclose handler of a socket, which calls reconnect() unless the
\* manual-disconnect flag is set.
OnClose(s) ==
  /\ socks' = [socks EXCEPT ![s] = ClosedSock]
  /\ isConnecting' = FALSE
  \* stopHeartbeat()
  /\ heartbeatInterval' = FALSE
  /\ hbLive' = IF heartbeatInterval THEN hbLive - 1 ELSE hbLive
  /\ IF manualDisconnect
     THEN UNCHANGED <<reconnectAttempts, reconnTimers, exhausted, schedLog, nmCloses>>
     ELSE /\ nmCloses' = nmCloses + 1
          /\ IF reconnectAttempts >= maxReconnectAttempts
             THEN /\ exhausted' = TRUE
                  /\ UNCHANGED <<reconnectAttempts, reconnTimers, schedLog>>
             ELSE /\ reconnectAttempts' = reconnectAttempts + 1
                  /\ reconnTimers' = Append(reconnTimers, ReconnectDelay(reconnectAttempts))
                  /\ schedLog' = Append(schedLog, ReconnectDelay(reconnectAttempts))
                  /\ UNCHANGED exhausted
  /\ UNCHANGED <<ws, manualDisconnect, promises, lastCallerOp, promBase, callerUrl>>
  /\ UNCHANGED <<execVars, calcVars, callVars, msgVars>>

\* The socket fails (connection refused, network error): the error event,
\* whose handler clears isConnecting, then the close event.
SockFail(s) ==
  /\ socks[s].state \in {"CONNECTING", "OPEN"}
  /\ OnClose(s)

\* The close event of a socket closed by the peer or by close().
SockClose(s) ==
  /\ socks[s].state \in {"OPEN", "CLOSING"}
  /\ OnClose(s)

Registered(ls, key) == {ls[key][i] : i \in 1..Len(ls[key])}

\* on(type, callback), with a callback not yet registered for the type
On(key, h) ==
  /\ h \notin Registered(listeners, key)
  /\ Len(listeners["*"]) + Len(listeners["call_status"])
       + Len(listeners["stt_result"]) < MaxRegs
  /\ listeners' = [listeners EXCEPT ![key] = Append(@, h)]
  /\ UNCHANGED <<lastOff, lastMsg, lastSend>>
  /\ UNCHANGED <<execVars, wsVars, calcVars, callVars>>

\* handlers.indexOf(callback), 0 when absent
IndexOf(handlers, h) ==
  IF \E i \in 1..Len(handlers) : handlers[i] = h
  THEN CHOOSE i \in 1..Len(handlers) :
         handlers[i] = h /\ \A j \in 1..(i - 1) : handlers[j] # h
  ELSE 0

\* off(type, callback)
Off(key, h) ==
  /\ listeners' =
       [listeners EXCEPT ![key] =
          IF IndexOf(@, h) > 0 THEN RemoveAt(@, IndexOf(@, h)) ELSE @]
  /\ lastOff' = [key |-> key, h |-> h]
  /\ UNCHANGED <<lastMsg, lastSend>>
  /\ UNCHANGED <<execVars, wsVars, calcVars, callVars>>

\* this.listeners.get(key), [] for undefined
HandlersOf(ls, key) == IF key \in DOMAIN ls THEN ls[key] ELSE <<>>

handleMessage_TypedOnly(ls, type) == HandlersOf(ls, type)

\* handleMessage(message): the handlers invoked, in order
handleMessage(ls, type) == HandlersOf(ls, type) \o HandlersOf(ls, "*")

Parses_Anything(payload) == TRUE

\* JSON.parse(event.data) returns, and reading message.type does not raise
Parses(payload) == payload \in MsgTypes

\* The message event of socket s: its onmessage handler.  JSON.parse raises
\* on text that is not JSON, and handleMessage raises on null when it reads
\* message.type; the catch logs either.
OnMessage(s, payload) ==
  /\ socks[s].state = "OPEN"
  /\ lastMsg' = [seq |-> ~lastMsg.seq, payload |-> payload,
                 invoked |-> IF Parses(payload)
                             THEN handleMessage(listeners, payload)
                             ELSE <<>>,
                 dropped |-> (lastMsg.dropped \/ ~Parses(payload))]
  /\ UNCHANGED <<listeners, lastOff, lastSend>>
  /\ UNCHANGED <<execVars, wsVars, calcVars, callVars>>

Writable_Connecting(w, ss) == w # 0 /\ ss[w].state \in {"OPEN", "CONNECTING"}

\* this.ws && this.ws.readyState === WebSocket.OPEN
Writable(w, ss) == w # 0 /\ ss[w].state = "OPEN"

\* send(message)
send ==
  /\ lastSend' = [seq |-> ~lastSend.seq, written |-> Writable(ws, socks)]
  /\ UNCHANGED <<listeners, lastOff, lastMsg>>
  /\ UNCHANGED <<execVars, wsVars, calcVars, callVars>>

\* send(message) called by the application
Send == send

\* A tick of a heartbeat interval that was set and not cleared.
HeartbeatTick ==
  /\ hbLive > 0
  /\ send

NextWs ==
  \/ \E url \in {"default", "custom", "invalid"} : Connect(url)
  \/ \E k \in 1..Len(reconnTimers) : TimerConnect(k)
  \/ Disconnect
  \/ \E s \in 1..Len(socks) : SockOpen(s)
  \/ \E s \in 1..Len(socks) : SockFail(s)
  \/ \E s \in 1..Len(socks) : SockClose(s)

\* The parser's command without movement.
StopKind == [name |-> "stop", hasParams |-> TRUE, distance |-> 0]

\* The operations of the command store that write records, called by the
\* application while no timer fires.
NextStore ==
  \/ AddCommandOf(WideCmds, {StopKind})
  \/ AddCommandsOf(WideCmds, 0..MaxBatch, {StopKind})
  \/ UpdateCommandStatus

\* Enqueueing past the history limit: single commands, batches of up to
\* MaxBatch commands, and one batch longer than the limit.
NextHistory ==
  \/ AddCommandOf(MaxEnqueued, {StopKind})
  \/ AddCommandsOf(MaxEnqueued, (0..MaxBatch) \cup {HistoryCap + 1}, {StopKind})

\* Registering and removing handlers while messages arrive on an open
\* connection.
NextListen ==
  \/ Connect("default")
  \/ \E s \in 1..Len(socks) : SockOpen(s)
  \/ \E key \in Keys, h \in Handlers : On(key, h)
  \/ \E key \in Keys, h \in Handlers : Off(key, h)
  \/ \E s \in 1..Len(socks), payload \in Payloads : OnMessage(s, payload)

\* Inbound messages on connections that open and close.
NextInbound ==
  \/ Connect("default")
  \/ \E s \in 1..Len(socks) : SockOpen(s)
  \/ \E s \in 1..Len(socks) : SockClose(s)
  \/ \E key \in Keys, h \in Handlers : On(key, h)
  \/ \E s \in 1..Len(socks), payload \in Payloads : OnMessage(s, payload)

\* Sending while the service connects, disconnects and reconnects.
NextSend ==
  \/ Connect("default")
  \/ \E k \in 1..Len(reconnTimers) : TimerConnect(k)
  \/ Disconnect
  \/ \E s \in 1..Len(socks) : SockOpen(s)
  \/ \E s \in 1..Len(socks) : SockClose(s)
  \/ Send
  \/ HeartbeatTick

(***************************************************************************)
(* Specifications                                                          *)
(***************************************************************************)
\* the command store and the executor
SpecExec == Init /\ [][NextExec]_vars

\* A pending timer of the store or of a run fires.
TimerFires ==
  \E n \in 1..Len(timerQ) : ExecuteCommands(n) \/ RunWake(n)

\* the command store and the executor, where every timer that was set fires:
\* setTimeout callbacks are run by the event loop once their delay has passed
SpecExecFair == Init /\ [][NextExec]_vars /\ WF_vars(TimerFires)

\* the command store and the executor, three commands
SpecExecWide == Init /\ [][NextExecWide]_vars

\* the WebSocket service
SpecWs == Init /\ [][NextWs]_vars

\* the voice call: startCall, the chunk timer, the recorder, endCall
SpecCall == Init /\ [][NextCall]_vars

\* the command store alone
SpecStore == Init /\ [][NextStore]_vars

\* the command store, enqueueing more commands than the history keeps
SpecHistory == Init /\ [][NextHistory]_vars

\* the WebSocket service: handlers and the dispatch of inbound messages
SpecListen == Init /\ [][NextListen]_vars

\* the WebSocket service: inbound messages, well-formed or not
SpecInbound == Init /\ [][NextInbound]_vars

\* the WebSocket service: send() in every connection state
SpecSend == Init /\ [][NextSend]_vars

\* one call of calculateTargetPosition, on any arguments
SpecCalc == InitCalcAny /\ [][NextCalc]_vars

(***************************************************************************)
(* Properties of the executor and the command queue                        *)
(***************************************************************************)
ActiveRuns == {k \in 1..Len(runs) : runs[k].pc # "done"}

\* C1: at most one executeQueue run is iterating its command list at any
\* time.
C1_AtMostOneActiveRun == Cardinality(ActiveRuns) <= 1

StatusRank(s) == CASE s = "pending" -> 0 [] s = "executing" -> 1 [] OTHER -> 2

\* C2: the status of a command record only moves
\* pending -> executing -> completed|failed; it never returns to an earlier
\* status and a completed or failed record never changes status again.
C2_StatusMonotonic ==
  [][\A a \in 1..Len(commands) : \A b \in 1..Len(commands') :
       commands[a].id = commands'[b].id =>
         /\ StatusRank(commands'[b].status) >= StatusRank(commands[a].status)
         /\ StatusRank(commands[a].status) = 2 =>
              commands'[b].status = commands[a].status]_vars

\* C3: after abort() signalled a run that was interpolating a command,
\* position updates stop within one step-duration: at most one further step
\* of that run emits onPositionUpdate.
C3_AbortStopsUpdates == \A k \in 1..Len(runs) : runs[k].stepsAfter <= 1

\* C4: after abort() signalled a run, that run starts no further command
\* (onCommandStart is never invoked again by it).
C4_AbortStartsNothing == \A k \in 1..Len(runs) : runs[k].startAfter = 0

\* C5: a run cancelled by abort() never reports status error, and ends by
\* reporting status idle.
C5_CancelIsNotError ==
  \A k \in 1..Len(runs) :
    runs[k].sigged =>
      /\ runs[k].final # "error"
      /\ runs[k].pc = "done" => runs[k].final = "idle"

\* The pending setTimeout(() => executeCommands(), 100) timers.
StoreTimers(q) == Cardinality({n \in 1..Len(q) : q[n] = 0})

\* C11: an executeCommands()/executeQueue call made while the busy flag is
\* set is a no-op: the queue, the busy flag, the cancellation handle, the
\* runs, the robot status and the position are left as they were.
C11_BusyCallIsNoOp ==
  [][(isExecuting /\ StoreTimers(timerQ') < StoreTimers(timerQ)) =>
       UNCHANGED <<commands, currentCommandIndex, history, error, isExecuting,
                   abortController, abortedCtl, runs, robotStatus,
                   currentAction, position>>]_vars

\* C11 witness: the run of command 1 is still interpolating and has had the
\* busy flag since it began; command 2 was added after it began, and the
\* timer of that addCommand has fired.
C11_Witness ==
  /\ isExecuting
  /\ Len(runs) = 1 /\ runs[1].pc = "step" /\ Len(runs[1].cmds) = 1
  /\ Len(commands) = 2
  /\ commands[1].status = "executing" /\ commands[2].status = "pending"
  /\ StoreTimers(timerQ) = 0

\* C12: a command of a run starts from the world position current at that
\* moment: while the only run there has been awaits the first step of a
\* movement, and so has written nothing for it yet, the start position it
\* interpolates from is the position of the robot store.
C12_StartsFromCurrentPosition ==
  (Len(runs) = 1 /\ runs[1].pc = "step" /\ runs[1].j = 1) =>
    runs[1].cur = position

\* C13: a command whose execution raised is reported through
\* onCommandError: while the run goes on with later commands of its list the
\* record of that command is in the queue as failed with the error message,
\* and no run ends right after an onCommandError with commands left.
C13_FailureIsolated ==
  \A k \in 1..Len(runs) :
    /\ ~runs[k].cutAfterFail
    /\ \A m \in 1..(runs[k].i - 1) :
         Throws(runs[k].cmds[m]) =>
           \A a \in 1..Len(commands) :
             commands[a].id = runs[k].cmds[m].id =>
               commands[a].status = "failed" /\ commands[a].error = "TypeError"

\* C13 witness: the first command of the run raised and the run is executing
\* the second.
C13_Witness ==
  /\ Len(runs) = 1 /\ runs[1].pc = "delay300" /\ runs[1].i = 2
  /\ Throws(runs[1].cmds[1])
  /\ Len(commands) = 2
  /\ commands[1].status = "failed" /\ commands[1].error = "TypeError"
  /\ commands[2].status = "executing"
  /\ error = "TypeError"

\* C14 as stated: a completed movement emitted exactly animationSteps
\* position updates.
C14_ExactlyStepsUpdates ==
  \A k \in 1..Len(runs) : runs[k].doneEmits \in {0, AnimSteps}

\* C14 amended: a completed movement emitted animationSteps interpolated
\* updates and one more update after the loop, animationSteps + 1 in all.
C14_StepsPlusFinalUpdate ==
  \A k \in 1..Len(runs) : runs[k].doneEmits \in {0, AnimSteps + 1}

\* C14 witness: a run completed a movement.
C14_Witness ==
  /\ Len(runs) = 1 /\ runs[1].pc = "done" /\ runs[1].final = "idle"
  /\ runs[1].doneEmits > 0
  /\ Len(commands) = 1 /\ commands[1].status = "completed"
  /\ commands[1].name = "forward"

\* C15: when the continuation of the last step of a movement completes the
\* command, the last value it passed to onPositionUpdate, which is the
\* position of the robot store, is the computed target.
C15_LastUpdateIsTarget ==
  [][\A k \in 1..Len(runs) :
       (runs[k].pc = "step" /\ runs[k].j = AnimSteps /\ runs'[k].i # runs[k].i)
         => position' = runs[k].tgt]_vars

\* C15 witness: a movement was completed, the position is its target and the
\* value interpolated for the last step is another one.
C15_Witness ==
  /\ Len(runs) = 1 /\ runs[1].pc = "done" /\ runs[1].doneEmits > 0
  /\ Len(commands) = 1 /\ commands[1].status = "completed"
  /\ position = calculateTargetPosition(commands[1], Origin)
  /\ position.z # ((position.z - Origin.z) \div AnimSteps) * AnimSteps

\* The signed unit axis of a command name, <<x, y, z>>.
Axis(name) ==
  CASE name = "forward"  -> <<0, 0, -1>>
    [] name = "backward" -> <<0, 0, 1>>
    [] name = "left"     -> <<-1, 0, 0>>
    [] name = "right"    -> <<1, 0, 0>>
    [] name = "up"       -> <<0, 1, 0>>
    [] name = "down"     -> <<0, -1, 0>>
    [] OTHER             -> <<0, 0, 0>>

\* C16: calculateTargetPosition moves forward/backward/left/right/up/down
\* along -z/+z/-x/+x/+y/-y by the distance, 1 when no distance is given,
\* and returns the position unchanged for turn_left, turn_right and stop;
\* from the origin forward 3 gives (0,0,-3) and right 2 gives (2,0,0); the
\* position object passed in is not changed.  (Positions are in units of
\* 1/Scale.)
C16_TargetMapping ==
  calcDone = "yes" =>
    LET d == (IF calcCommand.distance = 0 THEN 1 ELSE calcCommand.distance) * Scale
        a == Axis(calcCommand.name)
    IN  /\ calcResult = [x |-> calcIn.x + a[1] * d, y |-> calcIn.y + a[2] * d,
                         z |-> calcIn.z + a[3] * d]
        /\ calcCommand.name \in {"turn_left", "turn_right", "stop"} =>
             calcResult = calcIn
        /\ (calcIn = Origin /\ calcCommand.name = "forward" /\ calcCommand.distance = 3)
             => calcResult = [x |-> 0, y |-> 0, z |-> -3 * Scale]
        /\ (calcIn = Origin /\ calcCommand.name = "right" /\ calcCommand.distance = 2)
             => calcResult = [x |-> 2 * Scale, y |-> 0, z |-> 0]
        /\ calcPos = calcIn

\* C16 witness: forward with distance 3 was computed from the origin.
C16_Witness ==
  /\ calcDone = "yes"
  /\ calcIn = Origin
  /\ calcCommand = [name |-> "forward", hasParams |-> TRUE, distance |-> 3]
  /\ calcResult.z = -3 * Scale

(***************************************************************************)
(* Properties of the voice call                                            *)
(***************************************************************************)
\* C17: a sendAudioChunk() that finds the file grown from the sent offset p
\* to the size s, and reads the file at that size, sends a chunk that
\* carries exactly the bytes [p, s).
C17_ChunkIsGrowth ==
  (lastChunk.nth > 0 /\ lastChunk.to = lastChunk.s) =>
    lastChunk.from = lastChunk.p

\* C18: no byte of the recording is carried by more than one call_audio
\* message: a chunk begins at or after the end of every chunk sent before.
C18_NoByteResent ==
  lastChunk.nth > 0 => lastChunk.from >= lastChunk.prevTo

\* C19: is_first_chunk is true on the first call_audio message after
\* call_start and false on every later one.
C19_FirstMarkerOnce ==
  lastChunk.nth > 0 => (lastChunk.first <=> lastChunk.nth = 1)

\* C20: when endCall() sends call_end it has made one last read of the
\* recording, begun when no chunk timer was running any more.
C20_DrainBeforeEnd ==
  lastEnd.n > 0 => lastEnd.reads = 1 /\ ~lastEnd.live

\* C40: at most one chunk timer is armed at any time; until endCall() is
\* called, the session has sent one call_start; and once endCall() has
\* completed, with no startCall() since, no chunk timer is armed.
C40_OneTimerOneStart ==
  /\ Cardinality(liveTimers) <= 1
  /\ ends = <<>> => nStarts <= 1
  /\ sessionEnded => liveTimers = {}

\* C22: every addCommand/addCommands step leaves the records already in the
\* queue as they were, in place, and appends the commands passed, in the order
\* given (ascending id), each with status pending.
C22_EnqueueKeepsCallOrder ==
  [][nextId' > nextId =>
       /\ Len(commands') = Len(commands) + (nextId' - nextId)
       /\ SubSeq(commands', 1, Len(commands)) = commands
       /\ \A i \in 1..(nextId' - nextId) :
            /\ commands'[Len(commands) + i].id = nextId + i - 1
            /\ commands'[Len(commands) + i].status = "pending"]_vars

\* a batch of two was appended after a record that is no longer pending
C22_Witness ==
  /\ Len(commands) = 3
  /\ commands[1].status = "completed"
  /\ commands[2].id = 2 /\ commands[3].id = 3
  /\ lastUpdate.n = 1
  /\ Len(timerQ) = 2

\* C23: the history holds exactly the most recent min(total, 100) commands
\* enqueued, in enqueue order.
C23_HistoryIsNewest ==
  LET total == nextId - 1
      kept == IF total <= HistoryCap THEN total ELSE HistoryCap
  IN history = [i \in 1..kept |-> total - kept + i]

\* 105 commands were enqueued and the history holds the last 100
C23_Witness ==
  /\ nextId - 1 = 105
  /\ Len(history) = 100
  /\ history[1] = 6 /\ history[100] = 105

\* C24: updateCommandStatus with an id no record has changes nothing; with a
\* matching id it changes the status and error of that record and nothing
\* else.
C24_UpdateTouchesOneRecord ==
  [][lastUpdate' # lastUpdate =>
       /\ Len(commands') = Len(commands)
       /\ \A k \in 1..Len(commands) :
            IF commands[k].id = lastUpdate'.id
            THEN commands'[k] = [commands[k] EXCEPT
                                   !.status = lastUpdate'.status,
                                   !.error = lastUpdate'.error]
            ELSE commands'[k] = commands[k]
       /\ (\A k \in 1..Len(commands) : commands[k].id # lastUpdate'.id)
            => commands' = commands
       /\ UNCHANGED <<currentCommandIndex, history, error, timerQ, nextId,
                       isExecuting, abortController, runs, robotStatus,
                       currentAction, position>>]_vars

\* the second of two records was updated and the first, updated before,
\* is as it was
C24_Witness ==
  /\ lastUpdate.n = 2
  /\ lastUpdate.id = 2 /\ lastUpdate.status = "failed"
  /\ Len(commands) = 2
  /\ commands[1].status = "completed"
  /\ commands[2].status = "failed" /\ commands[2].error = "E"

\* C25: a clearCommands() on a queue that holds records signals abort to the
\* current run, and on return the queue is empty, the cursor is 0, the
\* executor holds no controller and is not busy, and the history is as it
\* was.
C25_ClearAbortsAndResets ==
  [][(commands # <<>> /\ commands' = <<>>) =>
       /\ abortController # 0 => abortController \in abortedCtl'
       /\ abortController' = 0
       /\ ~isExecuting'
       /\ currentCommandIndex' = 0
       /\ history' = history]_vars

\* the queue was cleared while a run was suspended: the run's controller is
\* signalled, the executor is not busy, the history is kept
C25_Witness ==
  /\ commands = <<>>
  /\ currentCommandIndex = 0
  /\ history = <<1, 2>>
  /\ ~isExecuting /\ abortController = 0
  /\ \E k \in ActiveRuns : runs[k].ctl \in abortedCtl /\ runs[k].i = 1

\* C26: the cursor is never negative and never greater than the last valid
\* index of the queue (0 for an empty queue).
C26_CursorValid ==
  /\ currentCommandIndex >= 0
  /\ currentCommandIndex <= (IF commands = <<>> THEN 0 ELSE Len(commands) - 1)

\* The handlers a message invoked.
Invoked(m) == {m.invoked[i] : i \in 1..Len(m.invoked)}

C28_MalformedIsDropped ==
  [][(lastMsg'.seq # lastMsg.seq /\ lastMsg'.payload \notin MsgTypes) =>
       /\ lastMsg'.invoked = <<>>
       /\ UNCHANGED <<ws, socks, isConnecting, manualDisconnect,
                       heartbeatInterval, hbLive, reconnectAttempts,
                       reconnTimers, listeners>>]_vars

\* after a message that did not parse, a later call_status message on the
\* open connection was dispatched to the handler registered for it
C28_Witness ==
  /\ lastMsg.dropped
  /\ lastMsg.payload = "call_status"
  /\ lastMsg.invoked = <<1>>
  /\ ws # 0 /\ socks[ws].state = "OPEN" /\ heartbeatInterval

\* C29: a send() while the channel is not open writes nothing and leaves the
\* socket, the connection flags, the timers and the reconnect counter as
\* they were.
C29_SendNotOpenIsNoOp ==
  [][(lastSend'.seq # lastSend.seq /\ ~(ws # 0 /\ socks[ws].state = "OPEN")) =>
       /\ ~lastSend'.written
       /\ UNCHANGED <<ws, socks, isConnecting, manualDisconnect,
                       heartbeatInterval, hbLive, reconnectAttempts,
                       reconnTimers, promises>>]_vars

\* a send() was made while a reconnect was pending on a closed channel
C29_Witness ==
  /\ lastSend.seq /\ ~lastSend.written
  /\ ws # 0 /\ socks[ws].state = "CLOSED"
  /\ reconnTimers # <<>> /\ reconnectAttempts = 1

\* C30: while no executeQueue run is in progress, the executor is not busy and
\* holds no controller, and a step that starts no run (abort() of
\* stopExecution or clearCommands among them) leaves the busy flag false, the
\* controller absent, the aborted signals, the runs and the position as they
\* were, and changes no record of the queue; the controller of a run that
\* starts is not aborted.
C30_IdleAbortIsNoOp ==
  [][/\ ActiveRuns = {} => (~isExecuting /\ abortController = 0)
     /\ (ActiveRuns = {} /\ Len(runs') = Len(runs)) =>
          /\ ~isExecuting' /\ abortController' = 0
          /\ abortedCtl' = abortedCtl
          /\ runs' = runs
          /\ position' = position
          /\ commands' = <<>> \/ SubSeq(commands', 1, Len(commands)) = commands
     /\ Len(runs') > Len(runs) =>
          /\ runs'[Len(runs')].ctl \notin abortedCtl'
          /\ ~runs'[Len(runs')].sigged]_vars

\* the queue was cleared between two runs, while none was in progress, and
\* the run that followed completed its command
C30_Witness ==
  /\ Len(runs) = 2
  /\ runs[1].pc = "done" /\ runs[1].final = "idle"
  /\ runs[2].pc = "done" /\ runs[2].final = "idle"
  /\ abortedCtl = {}
  /\ Len(commands) = 1
  /\ commands[1].id = 2 /\ commands[1].status = "completed"
  /\ history = <<1, 2>>

\* C33: every executeQueue run eventually leaves executeQueue (from some
\* point on no run is in progress), and the step in which a run leaves it, on any path, clears the busy flag
\* and releases the controller.
C33_RunsEndWithCleanup ==
  /\ <>[](ActiveRuns = {})
  /\ [][\A k \in 1..Len(runs) :
          (runs[k].pc # "done" /\ runs'[k].pc = "done") =>
            (~isExecuting' /\ abortController' = 0)]_vars

\* a run that was cancelled while interpolating has left executeQueue, and
\* the executor is not busy and holds no controller
C33_Witness ==
  /\ Len(runs) = 1
  /\ runs[1].pc = "done" /\ runs[1].sigInStep
  /\ ~isExecuting /\ abortController = 0

\* C34: no command is left pending with nothing that will pick it up: when
\* no abort was ever signalled, no timer is pending and no run is in
\* progress, no record of the queue has status pending.
C34_NoStrandedCommand ==
  (abortedCtl = {} /\ timerQ = <<>> /\ ActiveRuns = {}) =>
    \A k \in 1..Len(commands) : commands[k].status # "pending"

\* C35: onCommandStart fires at most once per command id: no command is
\* started by two runs (a run starts each command of its list once).
C35_StartedOnce ==
  \A k, m \in 1..Len(runs) :
    k # m => runs[k].started \cap runs[m].started = {}

\* C36: every record that enters status executing eventually reaches
\* completed or failed, the one interrupted by abort()/stopExecution()
\* included: from some point on no record of the store is in status
\* executing, and a record that leaves status executing while it stays in
\* the store goes to completed or failed.
C36_ExecutingEnds ==
  /\ <>[](\A k \in 1..Len(commands) : commands[k].status # "executing")
  /\ [][\A k \in 1..Len(commands) :
         (/\ commands[k].status = "executing"
          /\ k <= Len(commands')
          /\ commands'[k].id = commands[k].id) =>
           commands'[k].status \in {"executing", "completed", "failed"}]_vars

\* A run interrupted by abort() in the middle of an animation has ended and
\* the command it was executing is completed.
C36_Witness ==
  /\ Len(runs) = 1 /\ runs[1].pc = "done" /\ runs[1].sigInStep
  /\ runs[1].started = {1}
  /\ Len(commands) >= 1
  /\ commands[1].id = 1 /\ commands[1].status = "completed"

\* C21: no call_audio message is sent after the call_end of its session
\* (after a call_end with no call_start since).
C21_NoAudioAfterEnd ==
  lastChunk.nth > 0 => ~lastChunk.afterEnd

(***************************************************************************)
(* Properties of the WebSocket service                                     *)
(***************************************************************************)
\* C6: after disconnect(), and until the application calls connect() again,
\* no socket is created, no reconnect is scheduled and the channel is not
\* connected.
C6_DisconnectIsTerminal ==
  [][(lastCallerOp = "disconnect" /\ lastCallerOp' = "disconnect") =>
       /\ Len(socks') = Len(socks)
       /\ Len(reconnTimers') <= Len(reconnTimers)
       /\ ~isReady']_vars

\* C7: the delays scheduled since the last open are 1000, 2000, 5000 in
\* that order, one per non-manual close, and a fourth close schedules none.
C7_ReconnectSchedule ==
  schedLog = SubSeq(<<1000, 2000, 5000>>, 1, IF nmCloses < 3 THEN nmCloses ELSE 3)

\* C7 witness: the socket of the only connect() call opened, then four
\* non-manual closes in a row exhausted the schedule.
C7_Witness ==
  /\ promises = <<"resolved">>
  /\ nmCloses = 4
  /\ schedLog = <<1000, 2000, 5000>>
  /\ reconnTimers = <<>>
  /\ exhausted
  /\ Len(socks) = 4

\* C8: whenever the current socket is open a heartbeat timer is armed.
C8_HeartbeatWhileConnected == isReady => (heartbeatInterval /\ hbLive > 0)

\* C9: once the channel is connected, the promise of every connect() call
\* made since the last disconnect() is resolved.
C9_ConnectResolves ==
  isReady => \A p \in (promBase + 1)..Len(promises) : promises[p] = "resolved"

\* C10: after the reconnect schedule is exhausted, and until the application
\* calls connect() again, no socket is created, no reconnect is scheduled
\* and the channel is not connected.
C10_ExhaustedIsTerminal ==
  [][(exhausted /\ exhausted') =>
       /\ Len(socks') = Len(socks)
       /\ Len(reconnTimers') <= Len(reconnTimers)
       /\ ~isReady']_vars

\* C31: at any time at most one reconnect timer and at most one heartbeat
\* timer is pending.
C31_OneTimerPerKind ==
  /\ Len(reconnTimers) <= 1
  /\ hbLive <= 1

\* C32: an open leaves the reconnect counter at 0, and the first non-manual
\* close after an open schedules a reconnect with the first delay, 1000 ms,
\* as attempt 1 of 3, however many attempts preceded the open.
C32_OpenResetsCounter ==
  [][/\ (\E s \in 1..Len(socks) :
            socks[s].state = "CONNECTING" /\ socks'[s].state = "OPEN")
          => reconnectAttempts' = 0
     /\ (nmCloses = 0 /\ nmCloses' = 1) =>
          /\ Len(reconnTimers') = Len(reconnTimers) + 1
          /\ reconnTimers'[Len(reconnTimers')] = 1000
          /\ schedLog' = <<1000>>
          /\ reconnectAttempts' = 1]_vars

\* two attempts failed, the third socket opened and then closed: the one
\* close since the open scheduled 1000 ms as attempt 1
C32_Witness ==
  /\ Len(promises) = 1 /\ lastCallerOp = "connect"
  /\ Len(socks) = 3
  /\ \A s \in 1..3 : socks[s].state = "CLOSED"
  /\ promises = <<"resolved">>
  /\ nmCloses = 1
  /\ schedLog = <<1000>>
  /\ reconnectAttempts = 1

\* C37: a connect() made after disconnect() has returned starts a new
\* connection attempt: unless the URL is rejected, the call constructs a
\* socket, also when the attempt that disconnect() interrupted was still
\* connecting and its close event has not been delivered.
C37_ConnectAfterDisconnect ==
  [][(/\ lastCallerOp = "disconnect"
      /\ lastCallerOp' = "connect"
      /\ promises'[Len(promises')] # "rejected") =>
       /\ Len(socks') = Len(socks) + 1
       /\ socks'[Len(socks')].state = "CONNECTING"
       /\ ws' = Len(socks')]_vars

\* C38: a connect() of the caller made after the reconnect schedule was
\* exhausted restores automatic reconnection: when the socket it created
\* closes before opening, a reconnect is scheduled, with the first delay.
C38_ManualConnectRestores ==
  [][\A s \in 1..Len(socks) :
       (/\ socks[s].afterGiveUp
        /\ socks[s].state = "CONNECTING"
        /\ socks'[s].state = "CLOSED"
        /\ ~manualDisconnect) =>
         /\ Len(reconnTimers') = Len(reconnTimers) + 1
         /\ reconnTimers'[Len(reconnTimers')] = ReconnectDelay(0)]_vars

\* C39: every automatic reconnect targets the server URL of the caller's
\* most recent connect(url): a socket constructed by a reconnect timer has
\* the URL of the last socket constructed for the caller.
C39_ReconnectKeepsUrl ==
  [][(/\ Len(socks') = Len(socks) + 1
      /\ socks'[Len(socks')].prom = 0) =>
       socks'[Len(socks')].url = callerUrl]_vars

====
